---- MODULE Spec2Model ----
(***************************************************************************)
(* Validator peer-to-peer networking of smartdrive: the shared connection  *)
(* pool (validator/node/connection/connection_pool.py), the inbound        *)
(* handshake workers and the reconciliation loop of the TCP server         *)
(* (validator/network/node/server.py).                                     *)
(*                                                                         *)
(* Every process of the program (one handshake worker per accepted socket, *)
(* the check-connections process) is a sequence of steps; a step ends at   *)
(* each access to the manager-backed pool or to the chain, which are the   *)
(* points where the other processes can interleave.                        *)
(*                                                                         *)
(* Spec is the server with its handshake workers and its reconciliation    *)
(* loop. PoolSpec and LookupSpec are the pool under concurrent callers     *)
(* while entries age; SilentSpec is the reconciliation loop next to the    *)
(* reaper; StableSpec is the server over a registry that no longer changes *)
(* and a network without faults; PairSpec is two validators that dial each *)
(* other at the same time. DiscoverySpec is active-peer discovery          *)
(* (commune/request.py) over every registry; RetrieveSpec is one request   *)
(* to the retrieve endpoint (validator/api/retrieve_api.py).               *)
(***************************************************************************)
EXTENDS Integers, FiniteSets, Sequences, TLC

(* ------------------------------ bounds -------------------------------- *)
NumAddrs == 3          \* ss58 addresses registered on the chain: 1..NumAddrs
MaxInbound == 1        \* sockets accepted by the server during a run
MaxOutbound == 2       \* sockets dialed by the connector during a run
MaxTime == 1           \* readings of time.monotonic() are 0..MaxTime
cache_size == 1        \* ConnectionPool(manager, cache_size)
MaxClock == 11         \* readings of time.monotonic() where entries age: 0..MaxClock
MaxRounds == 2         \* rounds of the check-connections loop that are counted
MaxStake == 1          \* incentive and dividends of a module are 0..MaxStake
MaxElapsed == 1        \* a miner RPC takes 0..MaxElapsed readings of the clock

INACTIVITY_TIMEOUT_SECONDS == 10

(* ----------------------------- identities ----------------------------- *)
Addrs == 1..NumAddrs
SelfAddr == 1                      \* self._keypair.ss58_address
Keys == {100 + a : a \in Addrs}    \* one key pair per registered address
PeerKeys == Keys \ {100 + SelfAddr} \* the keys a remote peer can hold
InboundSockets == 1..MaxInbound
OutboundSockets == (MaxInbound + 1)..(MaxInbound + MaxOutbound)
Sockets == InboundSockets \cup OutboundSockets
NoSocket == 0                      \* Python None where a socket is expected

\* get_ss58_address_from_public_key(public_key_hex)
get_ss58_address_from_public_key(public_key_hex) == public_key_hex - 100

\* sign_data(body, keypair): the signature binds the signing key and the body
sign_data(body, key) == [key |-> key, body |-> body]

\* verify_data_signature(body, signature_hex, ss58_address)
verify_data_signature(body, signature_hex, ss58_address) ==
    /\ get_ss58_address_from_public_key(signature_hex.key) = ss58_address
    /\ signature_hex.body = body

(* ------------------------------ registry ------------------------------ *)
\* ModuleInfo(uid, ss58_address, connection, incentive, dividends); the uid
\* follows the address and the connection is reduced to its port.
ModuleInfo(ss58_address, port, incentive, dividends) ==
    [ss58_address |-> ss58_address, port |-> port,
     incentive |-> incentive, dividends |-> dividends]
NoneModule == ModuleInfo(0, 0, 0, 0)       \* Python None for a ModuleInfo

\* get_miners: the role rule
is_miner(module) ==
    \/ (module.incentive = module.dividends /\ module.dividends = 0)
    \/ module.incentive > module.dividends

\* get_filtered_modules(comx_client, netuid, ModuleType.VALIDATOR)
get_filtered_modules(modules) == {m \in modules : ~is_miner(m)}

\* States of the on-chain registry the run moves between: every address a
\* validator at port 1; the validators moved to port 2 and the last address
\* turned miner; a subnet without modules.
AsValidator(a, port) == ModuleInfo(a, port, 0, 1)
AsMiner(a, port) == ModuleInfo(a, port, 1, 0)
ChainSnapshots ==
    { {AsValidator(a, 1) : a \in Addrs},
      {AsValidator(a, 2) : a \in Addrs \ {NumAddrs}} \cup {AsMiner(NumAddrs, 2)},
      {} }

(* --------------------------- connection pool -------------------------- *)
\* Connection(module, socket, ping)
Connection(module, socket, ping) ==
    [module |-> module, socket |-> socket, ping |-> ping]

Put(conns, identifier, connection) ==
    [i \in DOMAIN conns \cup {identifier} |->
        IF i = identifier THEN connection ELSE conns[i]]

Drop(conns, identifiers) ==
    [i \in DOMAIN conns \ identifiers |-> conns[i]]

\* ConnectionPool.get_identifiers
get_identifiers(conns) == DOMAIN conns

\* ConnectionPool.get_remaining_capacity
get_remaining_capacity(conns) == cache_size - Cardinality(DOMAIN conns)

\* ConnectionPool.update_or_append (add_connection in the server); the result
\* says whether ConnectionPoolMaxSizeReached was raised and gives the mapping.
update_or_append(conns, identifier, module_info, socket, t) ==
    LET connection == Connection(module_info, socket, t) IN
    IF identifier \notin DOMAIN conns
    THEN IF Cardinality(DOMAIN conns) <= cache_size
         THEN [raised |-> FALSE, conns |-> Put(conns, identifier, connection)]
         ELSE [raised |-> TRUE, conns |-> conns]
    ELSE [raised |-> FALSE, conns |-> Put(conns, identifier, connection)]

\* ConnectionPool.remove (remove_connection in the server)
remove(conns, identifier) ==
    [socket |-> IF identifier \in DOMAIN conns
                THEN conns[identifier].socket ELSE NoSocket,
     conns |-> Drop(conns, {identifier})]

\* ConnectionPool.remove_multiple: pop(identifier, None) for each identifier,
\* the sockets of the entries that were there are returned
remove_multiple(conns, identifiers) ==
    [sockets |-> {conns[identifier].socket :
                     identifier \in identifiers \cap DOMAIN conns},
     conns |-> Drop(conns, identifiers)]

NoConnection == Connection(NoneModule, NoSocket, 0)   \* Python None for a Connection

\* the comparison of get_actives gone wrong: the boundary left out
get_actives_strict(conns, identifier, current_time) ==
    IF /\ identifier \in DOMAIN conns
       /\ current_time - conns[identifier].ping < INACTIVITY_TIMEOUT_SECONDS
    THEN conns[identifier]
    ELSE NoConnection

\* ConnectionPool.get_actives
get_actives(conns, identifier, current_time) ==
    IF /\ identifier \in DOMAIN conns
       /\ current_time - conns[identifier].ping <= INACTIVITY_TIMEOUT_SECONDS
    THEN conns[identifier]
    ELSE NoConnection

\* the comparison of remove_inactive gone wrong: one second too lenient
inactive_identifiers_late(conns, current_time) ==
    {identifier \in DOMAIN conns :
        current_time - conns[identifier].ping > INACTIVITY_TIMEOUT_SECONDS + 1}

\* the comparison of remove_inactive gone wrong: the boundary taken in
inactive_identifiers_from_boundary(conns, current_time) ==
    {identifier \in DOMAIN conns :
        current_time - conns[identifier].ping >= INACTIVITY_TIMEOUT_SECONDS}

\* ConnectionPool.remove_inactive: connections_to_remove
inactive_identifiers(conns, current_time) ==
    {identifier \in DOMAIN conns :
        current_time - conns[identifier].ping > INACTIVITY_TIMEOUT_SECONDS}

(* -------------------------------- state ------------------------------- *)
VARIABLES
    connections,   \* ConnectionPool._connections: identifier -> Connection
    now,           \* time.monotonic()
    chain,         \* the modules registered on the chain
    nextInbound,   \* the next socket accept() returns
    nextOutbound,  \* the next socket the connector creates
    closed,        \* sockets on which close() has been called
    receivers,     \* <<socket, identifier>> of every started Client receiver
    hs,            \* per accepted socket: the locals of _handle_connection
    rc,            \* the locals of _check_connections_process
    rounds,        \* rounds of _check_connections_process completed so far
    up,            \* the locals of a caller inside update_ping
    ri,            \* the locals of a caller inside remove_inactive
    ga,            \* what the last get_actives call returned
    peers,         \* two validators dialing each other: pools, sockets, workers
    ds,            \* the locals of get_active_miners / get_active_validators
    rt,            \* the locals of RetrieveAPI.retrieve_endpoint
    events         \* the events handed to Network.emit_event, in order

vars == <<connections, now, chain, nextInbound, nextOutbound, closed, receivers,
          hs, rc, rounds, up, ri, ga, peers, ds, rt, events>>

\* the state of the validator's API: peer discovery and the retrieve endpoint
api == <<ds, rt, events>>

\* the state the server's own steps never touch
aux == <<rounds, up, ri, ga, peers, api>>

\* ConnectionPool._lock is held by a caller that is inside update_ping or
\* remove_inactive; every other locked operation is a single step
locked == up.pc # "idle" \/ ri.pc # "idle"

(* ------------------------------ messages ------------------------------ *)
\* The body of an IDENTIFIER frame: {"code": IDENTIFIER, "data": {"ss58_address": a}}
Body(a) == [ss58_address |-> a]

\* Every first frame a peer can send: any claimed address, signed with a key
\* the peer holds over any body, announced under any public key.
Messages ==
    [body : {Body(a) : a \in Addrs},
     signature_hex : {sign_data(Body(a), k) : a \in Addrs, k \in PeerKeys},
     public_key_hex : PeerKeys]

(* ------------------------- Server._handle_connection ------------------- *)
HsFree == [pc |-> "free", log |-> "", connection_identifier |-> 0,
           ss58_address |-> 0, is_verified_signature |-> FALSE,
           validators |-> {}, validator_connection |-> NoneModule]

\* the lookup gone wrong: the first validator, whatever its address
find_validator_first(validators, connection_identifier) ==
    IF validators # {}
    THEN CHOOSE v \in validators :
            \A w \in validators : v.ss58_address <= w.ss58_address
    ELSE NoneModule

\* next((v for v in validators if v.ss58_address == connection_identifier), None)
find_validator(validators, connection_identifier) ==
    IF \E v \in validators : v.ss58_address = connection_identifier
    THEN CHOOSE v \in validators : v.ss58_address = connection_identifier
    ELSE NoneModule

\* the membership test gone wrong: "not in" for "in"
is_not_in_pool(conns, connection_identifier) ==
    connection_identifier \notin get_identifiers(conns)

\* connection_identifier in connection_pool.get_identifiers()
is_in_pool(conns, connection_identifier) ==
    connection_identifier \in get_identifiers(conns)

\* the worker process ends: its locals are gone, its last printed line stays
Return(s, message) ==
    [hs EXCEPT ![s] = [HsFree EXCEPT !.pc = "done", !.log = message]]

\* Server.run: accept() hands the new socket to a handshake worker
accept ==
    /\ nextInbound \in InboundSockets
    /\ hs' = [hs EXCEPT ![nextInbound].pc = "select"]
    /\ nextInbound' = nextInbound + 1
    /\ UNCHANGED <<connections, now, chain, nextOutbound, closed, receivers, rc, aux>>

\* select() times out: no first frame within IDENTIFIER_TIMEOUT_SECONDS
handle_connection_timeout(s) ==
    /\ hs[s].pc = "select"
    /\ hs' = Return(s, "no identification")
    /\ closed' = closed \cup {s}
    /\ UNCHANGED <<connections, now, chain, nextInbound, nextOutbound, receivers, rc, aux>>

\* receive_msg raises, or the frame lacks a key the handler reads
handle_connection_malformed(s) ==
    /\ hs[s].pc = "select"
    /\ hs' = Return(s, "error")
    /\ closed' = closed \cup {s}
    /\ UNCHANGED <<connections, now, chain, nextInbound, nextOutbound, receivers, rc, aux>>

\* the first frame arrives: derive the address, verify the signature, close
\* the socket when it does not verify, read the claimed address
handle_connection_receive(s) ==
    /\ hs[s].pc = "select"
    /\ \E identification_message \in Messages :
        LET ss58_address ==
                get_ss58_address_from_public_key(identification_message.public_key_hex)
            is_verified_signature ==
                verify_data_signature(identification_message.body,
                                      identification_message.signature_hex,
                                      ss58_address)
        IN /\ hs' = [hs EXCEPT
                ![s].pc = "check_identifier",
                ![s].ss58_address = ss58_address,
                ![s].is_verified_signature = is_verified_signature,
                ![s].connection_identifier =
                    identification_message.body.ss58_address,
                ![s].log = IF is_verified_signature THEN "reached"
                           ELSE "signature not valid"]
           /\ closed' = IF is_verified_signature THEN closed
                        ELSE closed \cup {s}
    /\ UNCHANGED <<connections, now, chain, nextInbound, nextOutbound, receivers, rc, aux>>

\* if connection_identifier in connection_pool.get_identifiers(): return
handle_connection_check_identifier(s) ==
    /\ hs[s].pc = "check_identifier"
    /\ IF is_in_pool(connections, hs[s].connection_identifier)
       THEN hs' = Return(s, "already in the connection pool")
       ELSE hs' = [hs EXCEPT ![s].pc = "check_full"]
    /\ UNCHANGED <<connections, now, chain, nextInbound, nextOutbound, closed, receivers, rc, aux>>

\* if connection_pool.get_remaining_capacity() == 0: close, return
handle_connection_check_full(s) ==
    /\ hs[s].pc = "check_full"
    /\ IF get_remaining_capacity(connections) = 0
       THEN /\ hs' = Return(s, "pool is full")
            /\ closed' = closed \cup {s}
       ELSE /\ hs' = [hs EXCEPT ![s].pc = "get_validators"]
            /\ UNCHANGED closed
    /\ UNCHANGED <<connections, now, chain, nextInbound, nextOutbound, receivers, rc, aux>>

\* validators = get_filtered_modules(...); look the claimed address up
handle_connection_get_validators(s) ==
    /\ hs[s].pc = "get_validators"
    /\ LET validators == get_filtered_modules(chain)
           validator_connection ==
               find_validator(validators, hs[s].connection_identifier)
       IN IF validators = {}
          THEN /\ hs' = Return(s, "no active validators")
               /\ closed' = closed \cup {s}
          ELSE IF validator_connection = NoneModule
          THEN /\ hs' = Return(s, "not a valid validator")
               /\ closed' = closed \cup {s}
          ELSE /\ hs' = [hs EXCEPT ![s].pc = "check_space",
                                   ![s].validators = validators,
                                   ![s].validator_connection = validator_connection]
               /\ UNCHANGED closed
    /\ UNCHANGED <<connections, now, chain, nextInbound, nextOutbound, receivers, rc, aux>>

\* the chain query raises: except branch
handle_connection_get_validators_fails(s) ==
    /\ hs[s].pc = "get_validators"
    /\ hs' = Return(s, "error")
    /\ closed' = closed \cup {s}
    /\ UNCHANGED <<connections, now, chain, nextInbound, nextOutbound, receivers, rc, aux>>

\* if connection_pool.get_remaining_capacity() > 0: ... else: close
handle_connection_check_space(s) ==
    /\ hs[s].pc = "check_space"
    /\ IF get_remaining_capacity(connections) > 0
       THEN /\ hs' = [hs EXCEPT ![s].pc = "add_connection"]
            /\ UNCHANGED closed
       ELSE /\ hs' = Return(s, "no space available")
            /\ closed' = closed \cup {s}
    /\ UNCHANGED <<connections, now, chain, nextInbound, nextOutbound, receivers, rc, aux>>

\* connection_pool.add_connection(validator_connection.ss58_address, ...)
handle_connection_add_connection(s) ==
    /\ hs[s].pc = "add_connection"
    /\ ~locked
    /\ LET r == update_or_append(connections,
                                 hs[s].validator_connection.ss58_address,
                                 hs[s].validator_connection, s, now)
       IN IF r.raised
          THEN /\ hs' = Return(s, "error")
               /\ closed' = closed \cup {s}
               /\ UNCHANGED connections
          ELSE /\ hs' = [hs EXCEPT ![s].pc = "start", ![s].log = "added"]
               /\ connections' = r.conns
               /\ UNCHANGED closed
    /\ UNCHANGED <<now, chain, nextInbound, nextOutbound, receivers, rc, aux>>

\* client_receiver = Client(client_socket, connection_identifier, ...).start()
handle_connection_start(s) ==
    /\ hs[s].pc = "start"
    /\ hs' = Return(s, "added")
    /\ receivers' = receivers \cup {<<s, hs[s].connection_identifier>>}
    /\ UNCHANGED <<connections, now, chain, nextInbound, nextOutbound, closed, rc, aux>>

\* the receiver process cannot be started: except branch
handle_connection_start_fails(s) ==
    /\ hs[s].pc = "start"
    /\ hs' = Return(s, "error")
    /\ closed' = closed \cup {s}
    /\ UNCHANGED <<connections, now, chain, nextInbound, nextOutbound, receivers, rc, aux>>

handle_connection(s) ==
    \/ handle_connection_timeout(s)
    \/ handle_connection_malformed(s)
    \/ handle_connection_receive(s)
    \/ handle_connection_check_identifier(s)
    \/ handle_connection_check_full(s)
    \/ handle_connection_get_validators(s)
    \/ handle_connection_get_validators_fails(s)
    \/ handle_connection_check_space(s)
    \/ handle_connection_add_connection(s)
    \/ handle_connection_start(s)
    \/ handle_connection_start_fails(s)

(* -------------------- Server._check_connections_process ---------------- *)
RcStart == [pc |-> "get_validators", validators |-> {}, to_remove |-> {},
            new_validators |-> {}, validator |-> NoneModule,
            validator_socket |-> NoSocket, sent |-> <<>>]

\* message = {"body": body, "signature_hex": sign_data(body, keypair).hex(),
\*            "public_key_hex": keypair.public_key.hex()}
identifier_message ==
    [body |-> Body(SelfAddr),
     signature_hex |-> sign_data(Body(SelfAddr), 100 + SelfAddr),
     public_key_hex |-> 100 + SelfAddr]

Min(S) == CHOOSE x \in S : \A y \in S : x <= y

\* the list is walked in the order of the chain query, here by address
First(modules) ==
    CHOOSE v \in modules : \A w \in modules : v.ss58_address <= w.ss58_address

\* the filter gone wrong: every identifier of the pool is taken for stale
stale_identifiers_all(conns, validators) ==
    get_identifiers(conns)

\* to_remove = [a for a in get_identifiers() if a not in active_ss58_addresses]
stale_identifiers(conns, validators) ==
    {a \in get_identifiers(conns) :
        a \notin {validator.ss58_address : validator \in validators}}

\* new_validators = [v for v in validators
\*                   if v.ss58_address not in identifiers and v.ss58_address != self]
missing_validators(conns, validators) ==
    {validator \in validators :
        /\ validator.ss58_address \notin get_identifiers(conns)
        /\ validator.ss58_address # SelfAddr}

\* validators = get_filtered_modules(...); active_ss58_addresses; to_remove
check_connections_get_validators ==
    /\ rc.pc = "get_validators"
    /\ LET validators == get_filtered_modules(chain) IN
       rc' = [rc EXCEPT !.pc = "remove",
                        !.validators = validators,
                        !.to_remove = stale_identifiers(connections, validators)]
    /\ UNCHANGED <<connections, now, chain, nextInbound, nextOutbound, closed, receivers, hs, aux>>

\* the chain query raises: nothing in the loop catches it, the process ends
check_connections_get_validators_fails ==
    /\ rc.pc = "get_validators"
    /\ rc' = [rc EXCEPT !.pc = "crashed"]
    /\ UNCHANGED <<connections, now, chain, nextInbound, nextOutbound, closed, receivers, hs, aux>>

\* for ss58_address in to_remove: remove_connection, close what it returns
check_connections_remove ==
    /\ rc.pc = "remove"
    /\ rc.to_remove # {}
    /\ LET ss58_address == Min(rc.to_remove)
           r == remove(connections, ss58_address)
       IN /\ connections' = r.conns
          /\ closed' = IF r.socket # NoSocket THEN closed \cup {r.socket}
                       ELSE closed
          /\ rc' = [rc EXCEPT !.to_remove = rc.to_remove \ {ss58_address}]
    /\ UNCHANGED <<now, chain, nextInbound, nextOutbound, receivers, hs, aux>>

\* identifiers = get_identifiers(); new_validators = [...]
check_connections_new_validators ==
    /\ rc.pc = "remove"
    /\ rc.to_remove = {}
    /\ rc' = [rc EXCEPT !.pc = "connect",
                        !.new_validators =
                            missing_validators(connections, rc.validators)]
    /\ UNCHANGED <<connections, now, chain, nextInbound, nextOutbound, closed, receivers, hs, aux>>

\* the attempt gone wrong: the socket is connected, nothing is sent on it
initialize_validators_connect_mute ==
    /\ rc.pc = "connect"
    /\ rc.new_validators # {}
    /\ nextOutbound \in OutboundSockets
    /\ rc' = [rc EXCEPT !.pc = "add_connection",
                        !.validator = First(rc.new_validators),
                        !.validator_socket = nextOutbound]
    /\ nextOutbound' = nextOutbound + 1
    /\ UNCHANGED <<connections, now, chain, nextInbound, closed, receivers, hs, aux>>

\* _initialize_validators: socket(), connect, send the signed IDENTIFIER;
\* sent is the frame that went out and the socket it went out on
initialize_validators_connect ==
    /\ rc.pc = "connect"
    /\ rc.new_validators # {}
    /\ nextOutbound \in OutboundSockets
    /\ rc' = [rc EXCEPT !.pc = "add_connection",
                        !.validator = First(rc.new_validators),
                        !.validator_socket = nextOutbound,
                        !.sent = <<nextOutbound, identifier_message>>]
    /\ nextOutbound' = nextOutbound + 1
    /\ UNCHANGED <<connections, now, chain, nextInbound, closed, receivers, hs, aux>>

\* connect or send_json raises
initialize_validators_connect_fails ==
    /\ rc.pc = "connect"
    /\ rc.new_validators # {}
    /\ nextOutbound \in OutboundSockets
    /\ rc' = [rc EXCEPT !.pc = "except",
                        !.validator = First(rc.new_validators),
                        !.validator_socket = nextOutbound]
    /\ nextOutbound' = nextOutbound + 1
    /\ UNCHANGED <<connections, now, chain, nextInbound, closed, receivers, hs, aux>>

\* connection_pool.add_connection(validator.ss58_address, validator, validator_socket)
initialize_validators_add_connection ==
    /\ rc.pc = "add_connection"
    /\ ~locked
    /\ LET r == update_or_append(connections, rc.validator.ss58_address,
                                 rc.validator, rc.validator_socket, now)
       IN IF r.raised
          THEN /\ rc' = [rc EXCEPT !.pc = "except", !.sent = <<>>]
               /\ UNCHANGED connections
          ELSE /\ rc' = [rc EXCEPT !.pc = "start"]
               /\ connections' = r.conns
    /\ UNCHANGED <<now, chain, nextInbound, nextOutbound, closed, receivers, hs, aux>>

\* client_receiver = Client(validator_socket, validator.ss58_address, ...).start()
initialize_validators_start ==
    /\ rc.pc = "start"
    /\ receivers' = receivers \cup
                    {<<rc.validator_socket, rc.validator.ss58_address>>}
    /\ rc' = [rc EXCEPT !.pc = "connect",
                        !.new_validators = rc.new_validators \ {rc.validator},
                        !.validator = NoneModule,
                        !.validator_socket = NoSocket,
                        !.sent = <<>>]
    /\ UNCHANGED <<connections, now, chain, nextInbound, nextOutbound, closed, hs, aux>>

\* the receiver process cannot be started; the handler has no use for the
\* frame that was sent
initialize_validators_start_fails ==
    /\ rc.pc = "start"
    /\ rc' = [rc EXCEPT !.pc = "except", !.sent = <<>>]
    /\ UNCHANGED <<connections, now, chain, nextInbound, nextOutbound, closed, receivers, hs, aux>>

\* the handler gone wrong: the entry is removed, the socket is left open
initialize_validators_except_open ==
    /\ rc.pc = "except"
    /\ connections' = remove(connections, rc.validator.ss58_address).conns
    /\ rc' = [rc EXCEPT !.pc = "connect",
                        !.new_validators = rc.new_validators \ {rc.validator},
                        !.validator = NoneModule,
                        !.validator_socket = NoSocket]
    /\ UNCHANGED <<now, chain, nextInbound, nextOutbound, closed, receivers, hs, aux>>

\* the handler gone wrong: it cleans up and gives the rest of the list up
initialize_validators_except_aborts ==
    /\ rc.pc = "except"
    /\ connections' = remove(connections, rc.validator.ss58_address).conns
    /\ closed' = closed \cup {rc.validator_socket}
    /\ rc' = [rc EXCEPT !.pc = "connect",
                        !.new_validators = {},
                        !.validator = NoneModule,
                        !.validator_socket = NoSocket]
    /\ UNCHANGED <<now, chain, nextInbound, nextOutbound, receivers, hs, aux>>

\* except Exception: remove_connection(validator.ss58_address); validator_socket.close()
initialize_validators_except ==
    /\ rc.pc = "except"
    /\ connections' = remove(connections, rc.validator.ss58_address).conns
    /\ closed' = closed \cup {rc.validator_socket}
    /\ rc' = [rc EXCEPT !.pc = "connect",
                        !.new_validators = rc.new_validators \ {rc.validator},
                        !.validator = NoneModule,
                        !.validator_socket = NoSocket]
    /\ UNCHANGED <<now, chain, nextInbound, nextOutbound, receivers, hs, aux>>

\* the list is exhausted: time.sleep(10), then the next round
check_connections_round_ends ==
    /\ rc.pc = "connect"
    /\ rc.new_validators = {}
    /\ rc' = [RcStart EXCEPT !.pc = "get_validators"]
    /\ UNCHANGED <<connections, now, chain, nextInbound, nextOutbound, closed, receivers, hs>>

check_connections_sleep ==
    /\ check_connections_round_ends
    /\ UNCHANGED aux

check_connections_process ==
    \/ check_connections_get_validators
    \/ check_connections_get_validators_fails
    \/ check_connections_remove
    \/ check_connections_new_validators
    \/ initialize_validators_connect
    \/ initialize_validators_connect_fails
    \/ initialize_validators_add_connection
    \/ initialize_validators_start
    \/ initialize_validators_start_fails
    \/ initialize_validators_except
    \/ check_connections_sleep

(* ----------------------- callers of the pool -------------------------- *)
\* The pool is shared by every process of the validator. update_or_append,
\* get_actives, update_ping and remove_inactive hold ConnectionPool._lock for
\* their whole body; remove does not take it. update_ping and remove_inactive
\* make several calls to the manager's dictionary, so they are several steps.
PeerAddrs == Addrs \ {SelfAddr}

UpIdle == [pc |-> "idle", identifier |-> 0, connection |-> NoConnection,
           result |-> ""]
RiIdle == [pc |-> "idle", current_time |-> 0, connections_to_remove |-> {},
           remaining |-> {}, sockets_to_remove |-> {}, result |-> ""]
GaNone == [identifier |-> 0, connection |-> NoConnection]

\* update_or_append(identifier, module_info, socket) with a newly connected
\* socket; the caller closes the socket when the call raises
call_update_or_append(identifier) ==
    /\ ~locked
    /\ nextOutbound \in OutboundSockets
    /\ LET r == update_or_append(connections, identifier,
                                 AsValidator(identifier, 1), nextOutbound, now)
       IN /\ connections' = r.conns
          /\ closed' = IF r.raised THEN closed \cup {nextOutbound} ELSE closed
    /\ nextOutbound' = nextOutbound + 1
    /\ UNCHANGED <<now, chain, nextInbound, receivers, hs, rc, aux>>

\* remove(identifier); the caller closes the socket it gets back
call_remove(identifier) ==
    /\ LET r == remove(connections, identifier)
       IN /\ connections' = r.conns
          /\ closed' = IF r.socket # NoSocket THEN closed \cup {r.socket}
                       ELSE closed
    /\ UNCHANGED <<now, chain, nextInbound, nextOutbound, receivers, hs, rc, aux>>

\* remove_multiple(identifiers), under the lock; the caller closes every
\* socket it gets back
call_remove_multiple(identifiers) ==
    /\ ~locked
    /\ LET r == remove_multiple(connections, identifiers)
       IN /\ connections' = r.conns
          /\ closed' = closed \cup r.sockets
    /\ UNCHANGED <<now, chain, nextInbound, nextOutbound, receivers, hs, rc, aux>>

\* get_actives(identifier)
call_get_actives(identifier) ==
    /\ ~locked
    /\ ga' = [identifier |-> identifier,
              connection |-> get_actives(connections, identifier, now)]
    /\ UNCHANGED <<connections, now, chain, nextInbound, nextOutbound, closed,
                   receivers, hs, rc, rounds, up, ri, peers, api>>

\* the assignment gone wrong: the entry keeps the last_seen it had
with_ping_kept(connection, _time) == connection

\* connection.ping = _time
with_ping(connection, _time) == [connection EXCEPT !.ping = _time]

\* update_ping: with self._lock: if identifier in self._connections
update_ping_check(identifier) ==
    /\ up.pc = "idle"
    /\ ~locked
    /\ up' = IF identifier \in DOMAIN connections
             THEN [UpIdle EXCEPT !.pc = "read", !.identifier = identifier]
             ELSE [UpIdle EXCEPT !.identifier = identifier, !.result = "absent"]
    /\ UNCHANGED <<connections, now, chain, nextInbound, nextOutbound, closed,
                   receivers, hs, rc, rounds, ri, ga, peers, api>>

\* _time = time.monotonic(); connection = self._connections[identifier];
\* connection.ping = _time. The read raises KeyError when the entry is gone.
update_ping_read ==
    /\ up.pc = "read"
    /\ up' = IF up.identifier \in DOMAIN connections
             THEN [up EXCEPT !.pc = "write",
                             !.connection =
                                 with_ping(connections[up.identifier], now)]
             ELSE [UpIdle EXCEPT !.identifier = up.identifier,
                                 !.result = "KeyError"]
    /\ UNCHANGED <<connections, now, chain, nextInbound, nextOutbound, closed,
                   receivers, hs, rc, rounds, ri, ga, peers, api>>

\* self._connections[identifier] = connection
update_ping_write ==
    /\ up.pc = "write"
    /\ connections' = Put(connections, up.identifier, up.connection)
    /\ up' = [UpIdle EXCEPT !.identifier = up.identifier, !.result = "updated"]
    /\ UNCHANGED <<now, chain, nextInbound, nextOutbound, closed,
                   receivers, hs, rc, rounds, ri, ga, peers, api>>

\* remove_inactive: current_time = time.monotonic(); connections_to_remove =
\* [identifier for identifier, connection in self._connections.items() if ...]
remove_inactive_items ==
    /\ ri.pc = "idle"
    /\ ~locked
    /\ ri' = [RiIdle EXCEPT
                !.pc = "sockets",
                !.current_time = now,
                !.connections_to_remove = inactive_identifiers(connections, now)]
    /\ UNCHANGED <<connections, now, chain, nextInbound, nextOutbound, closed,
                   receivers, hs, rc, rounds, up, ga, peers, api>>

\* sockets_to_remove = [self._connections[identifier].socket for identifier in
\* connections_to_remove]; a read raises KeyError when the entry is gone
remove_inactive_sockets ==
    /\ ri.pc = "sockets"
    /\ ri' = IF ri.connections_to_remove \subseteq DOMAIN connections
             THEN [ri EXCEPT
                     !.pc = "del",
                     !.remaining = ri.connections_to_remove,
                     !.sockets_to_remove =
                         {connections[identifier].socket :
                             identifier \in ri.connections_to_remove}]
             ELSE [RiIdle EXCEPT !.result = "KeyError"]
    /\ UNCHANGED <<connections, now, chain, nextInbound, nextOutbound, closed,
                   receivers, hs, rc, rounds, up, ga, peers, api>>

\* for identifier in connections_to_remove: del self._connections[identifier]
remove_inactive_del ==
    /\ ri.pc = "del"
    /\ ri.remaining # {}
    /\ LET identifier == Min(ri.remaining) IN
       IF identifier \in DOMAIN connections
       THEN /\ connections' = Drop(connections, {identifier})
            /\ ri' = [ri EXCEPT !.remaining = ri.remaining \ {identifier}]
       ELSE /\ ri' = [RiIdle EXCEPT !.result = "KeyError"]
            /\ UNCHANGED connections
    /\ UNCHANGED <<now, chain, nextInbound, nextOutbound, closed,
                   receivers, hs, rc, rounds, up, ga, peers, api>>

\* the reaper: every socket remove_inactive returns is closed
reaper_close(closed_sockets, sockets_to_remove) ==
    closed_sockets \cup sockets_to_remove

\* return sockets_to_remove, to the reaper (which keeps the list it got)
remove_inactive_return ==
    /\ ri.pc = "del"
    /\ ri.remaining = {}
    /\ closed' = reaper_close(closed, ri.sockets_to_remove)
    /\ ri' = [RiIdle EXCEPT !.result = "returned",
                            !.sockets_to_remove = ri.sockets_to_remove]
    /\ UNCHANGED <<connections, now, chain, nextInbound, nextOutbound,
                   receivers, hs, rc, rounds, up, ga, peers, api>>

remove_inactive ==
    \/ remove_inactive_items
    \/ remove_inactive_sockets
    \/ remove_inactive_del
    \/ remove_inactive_return

(* ------------------ two validators dialing each other ----------------- *)
\* Two validators run the server at the same time; the reconciliation round
\* of each has found the other missing from its pool. The socket validator n
\* dials is named n at both of its ends; peers[n] is the state of validator
\* n: its pool, its connector (_initialize_validators), its handshake worker
\* (_handle_connection) for the socket the other one dials, the ends it has
\* closed and the ends on which it runs a receiver.
Pair == {1, 2}
Other(n) == 3 - n
PairChain == {AsValidator(n, 1) : n \in Pair}

PeersStart ==
    [n \in Pair |-> [connections |-> <<>>, dial |-> "connect",
                     answer |-> "listen", closed |-> {}, receivers |-> {}]]

\* validator n takes a step
PairNext(n, state) ==
    /\ peers' = [peers EXCEPT ![n] = state]
    /\ UNCHANGED <<connections, now, chain, nextInbound, nextOutbound, closed,
                   receivers, hs, rc, rounds, up, ri, ga, api>>

\* _initialize_validators: socket(), connect, send the signed IDENTIFIER
dial_connect(n) ==
    /\ peers[n].dial = "connect"
    /\ PairNext(n, [peers[n] EXCEPT !.dial = "add_connection"])

\* add_connection(validator.ss58_address, validator, validator_socket); when
\* it raises: remove_connection(validator.ss58_address), validator_socket.close()
dial_add_connection(n) ==
    /\ peers[n].dial = "add_connection"
    /\ LET r == update_or_append(peers[n].connections, Other(n),
                                 find_validator(PairChain, Other(n)), n, now)
       IN IF r.raised
          THEN PairNext(n, [peers[n] EXCEPT
                    !.dial = "done",
                    !.connections = remove(peers[n].connections, Other(n)).conns,
                    !.closed = peers[n].closed \cup {n}])
          ELSE PairNext(n, [peers[n] EXCEPT !.dial = "start",
                                            !.connections = r.conns])

\* Client(validator_socket, validator.ss58_address, ...).start()
dial_start(n) ==
    /\ peers[n].dial = "start"
    /\ PairNext(n, [peers[n] EXCEPT !.dial = "done",
                                    !.receivers = peers[n].receivers \cup {n}])

\* _handle_connection: the IDENTIFIER frame of the other validator arrives,
\* signed with its own key over its own address
answer_receive(n) ==
    /\ peers[n].answer = "listen"
    /\ peers[Other(n)].dial # "connect"
    /\ LET body == Body(Other(n))
           public_key_hex == 100 + Other(n)
           is_verified_signature ==
               verify_data_signature(body, sign_data(body, public_key_hex),
                   get_ss58_address_from_public_key(public_key_hex))
       IN IF is_verified_signature
          THEN PairNext(n, [peers[n] EXCEPT !.answer = "check_identifier"])
          ELSE PairNext(n, [peers[n] EXCEPT
                    !.answer = "check_identifier",
                    !.closed = peers[n].closed \cup {Other(n)}])

\* if connection_identifier in connection_pool.get_identifiers(): return
answer_check_identifier(n) ==
    /\ peers[n].answer = "check_identifier"
    /\ IF is_in_pool(peers[n].connections, Other(n))
       THEN PairNext(n, [peers[n] EXCEPT !.answer = "done"])
       ELSE PairNext(n, [peers[n] EXCEPT !.answer = "check_full"])

\* if connection_pool.get_remaining_capacity() == 0: close, return
answer_check_full(n) ==
    /\ peers[n].answer = "check_full"
    /\ IF get_remaining_capacity(peers[n].connections) = 0
       THEN PairNext(n, [peers[n] EXCEPT
                !.answer = "done",
                !.closed = peers[n].closed \cup {Other(n)}])
       ELSE PairNext(n, [peers[n] EXCEPT !.answer = "get_validators"])

\* validators = get_filtered_modules(...); look the claimed address up
answer_get_validators(n) ==
    /\ peers[n].answer = "get_validators"
    /\ IF find_validator(get_filtered_modules(PairChain), Other(n)) = NoneModule
       THEN PairNext(n, [peers[n] EXCEPT
                !.answer = "done",
                !.closed = peers[n].closed \cup {Other(n)}])
       ELSE PairNext(n, [peers[n] EXCEPT !.answer = "check_space"])

\* if connection_pool.get_remaining_capacity() > 0: ... else: close
answer_check_space(n) ==
    /\ peers[n].answer = "check_space"
    /\ IF get_remaining_capacity(peers[n].connections) > 0
       THEN PairNext(n, [peers[n] EXCEPT !.answer = "add_connection"])
       ELSE PairNext(n, [peers[n] EXCEPT
                !.answer = "done",
                !.closed = peers[n].closed \cup {Other(n)}])

\* connection_pool.add_connection(validator_connection.ss58_address, ...)
answer_add_connection(n) ==
    /\ peers[n].answer = "add_connection"
    /\ LET r == update_or_append(peers[n].connections, Other(n),
                                 find_validator(PairChain, Other(n)),
                                 Other(n), now)
       IN IF r.raised
          THEN PairNext(n, [peers[n] EXCEPT
                    !.answer = "done",
                    !.closed = peers[n].closed \cup {Other(n)}])
          ELSE PairNext(n, [peers[n] EXCEPT !.answer = "start",
                                            !.connections = r.conns])

\* Client(client_socket, connection_identifier, ...).start()
answer_start(n) ==
    /\ peers[n].answer = "start"
    /\ PairNext(n, [peers[n] EXCEPT
            !.answer = "done",
            !.receivers = peers[n].receivers \cup {Other(n)}])

dial(n) ==
    \/ dial_connect(n)
    \/ dial_add_connection(n)
    \/ dial_start(n)

answer(n) ==
    \/ answer_receive(n)
    \/ answer_check_identifier(n)
    \/ answer_check_full(n)
    \/ answer_get_validators(n)
    \/ answer_check_space(n)
    \/ answer_add_connection(n)
    \/ answer_start(n)

(* --------------------------- miner RPC client -------------------------- *)
\* What ModuleClient.call can do with a request: raise (the connection
\* fails, the timeout passes, the peer answers with an error status) or
\* return the JSON document the peer sent.
None == "None"
Exceptions == {"connect", "timeout", "peer error"}
\* answers to "ping": {"type": "miner"}, {"type": "validator"}, a document
\* without "type"
PingAnswers == {"miner", "validator", "untyped"}
\* answers to "retrieve": {"chunk": data}, {"chunk": ""}, {"chunk": null},
\* {} and a non-empty document without "chunk"
RetrieveAnswers == {"chunk", "empty", "null", "blank", "malformed"}

\* the except branch gone wrong: the exception is handed on as the answer
execute_miner_request_leaky(outcome) == outcome

\* execute_miner_request: try: client.call(...) except Exception: None
execute_miner_request(outcome) ==
    IF outcome \in Exceptions THEN None ELSE outcome

(* ---------------------------- peer discovery --------------------------- *)
\* States of the registry with every share of incentive and dividends.
Stakes == 0..MaxStake
Registries ==
    { {ModuleInfo(a, 1, stake[a][1], stake[a][2]) : a \in Addrs} :
        stake \in [Addrs -> Stakes \X Stakes] }

\* the role rule gone wrong: the zero-stake module is no longer a miner
get_miners_earning(modules) ==
    {module \in modules : module.incentive > module.dividends}

\* get_miners: the modules of get_modules that are miners
get_miners(modules) == {module \in modules : is_miner(module)}

\* (response := await execute_miner_request(...)) and response["type"] == type
\* for an answer that carries "type"
is_active(response, type) ==
    response # None /\ response = type

DsIdle == [pc |-> "idle", type |-> "", listed |-> {}, todo |-> {},
           replies |-> <<>>, active |-> {}]

DsFree == ds.pc \in {"idle", "returned", "raised"}

\* get_active_miners: modules = get_miners(comx_client, netuid)
get_active_miners_list ==
    /\ DsFree
    /\ ds' = [DsIdle EXCEPT !.pc = "ping", !.type = "miner",
                            !.listed = get_miners(chain),
                            !.todo = get_miners(chain)]
    /\ UNCHANGED <<connections, now, chain, nextInbound, nextOutbound, closed,
                   receivers, hs, rc, rounds, up, ri, ga, peers, rt, events>>

\* get_active_validators: modules = get_modules(comx_client, netuid)
get_active_validators_list ==
    /\ DsFree
    /\ ds' = [DsIdle EXCEPT !.pc = "ping", !.type = "validator",
                            !.listed = chain,
                            !.todo = chain]
    /\ UNCHANGED <<connections, now, chain, nextInbound, nextOutbound, closed,
                   receivers, hs, rc, rounds, up, ri, ga, peers, rt, events>>

\* the chain query of get_modules raises: the call raises
discovery_get_modules_fails ==
    /\ DsFree
    /\ \E type \in {"miner", "validator"} :
          ds' = [DsIdle EXCEPT !.pc = "raised", !.type = type]
    /\ UNCHANGED <<connections, now, chain, nextInbound, nextOutbound, closed,
                   receivers, hs, rc, rounds, up, ri, ga, peers, rt, events>>

\* one round of the list comprehension: ping the module, keep it when the
\* answer carries the type asked for; an answer without "type" is a KeyError
discovery_ping ==
    /\ ds.pc = "ping"
    /\ ds.todo # {}
    /\ \E outcome \in Exceptions \cup PingAnswers :
        LET module == First(ds.todo)
            response == execute_miner_request(outcome)
        IN IF response = "untyped"
           THEN ds' = [ds EXCEPT !.pc = "raised",
                                 !.replies = Put(ds.replies, module.ss58_address, response)]
           ELSE ds' = [ds EXCEPT
                    !.todo = ds.todo \ {module},
                    !.replies = Put(ds.replies, module.ss58_address, response),
                    !.active = IF is_active(response, ds.type)
                               THEN ds.active \cup {module} ELSE ds.active]
    /\ UNCHANGED <<connections, now, chain, nextInbound, nextOutbound, closed,
                   receivers, hs, rc, rounds, up, ri, ga, peers, rt, events>>

\* return active_miners / return active_validators
discovery_return ==
    /\ ds.pc = "ping"
    /\ ds.todo = {}
    /\ ds' = [ds EXCEPT !.pc = "returned"]
    /\ UNCHANGED <<connections, now, chain, nextInbound, nextOutbound, closed,
                   receivers, hs, rc, rounds, up, ri, ga, peers, rt, events>>

(* ---------------------- RetrieveAPI.retrieve_endpoint ------------------ *)
\* States of the registry in which every address is a miner or a validator.
RoleRegistries ==
    { {IF a \in miners THEN AsMiner(a, 1) ELSE AsValidator(a, 1) : a \in Addrs} :
        miners \in SUBSET Addrs }

RECURSIVE Ordered(_)
\* the members of a set of addresses as a list
Ordered(S) == IF S = {} THEN <<>> ELSE <<Min(S)>> \o Ordered(S \ {Min(S)})

\* get_active_miners as one call: the miners whose ping was answered with
\* type "miner"
active_miners_of(modules, responses) ==
    {module \in get_miners(modules) :
        is_active(responses[module.ss58_address], "miner")}

\* get_miner_info_with_chunk(active_miners, miner_chunks): the chunk records
\* of the file whose miner is active
get_miner_info_with_chunk(active_miners, miner_chunks) ==
    Ordered({a \in miner_chunks : \E m \in active_miners : m.ss58_address = a})

\* the chunk a miner holds is named after the miner
chunk_uuid_of(a) == 10 + a

\* retrieve_request: return miner_answer["chunk"] if miner_answer else None
retrieve_request(miner_answer) ==
    IF miner_answer \in {None, "blank"} THEN [raised |-> FALSE, chunk |-> None]
    ELSE IF miner_answer = "chunk" THEN [raised |-> FALSE, chunk |-> "data"]
    ELSE IF miner_answer = "empty" THEN [raised |-> FALSE, chunk |-> ""]
    ELSE IF miner_answer = "null" THEN [raised |-> FALSE, chunk |-> None]
    ELSE [raised |-> TRUE, chunk |-> None]

\* MinerProcess(chunk_uuid, miner_ss58_address, succeed, processing_time)
MinerProcess(chunk_uuid, miner_ss58_address, succeed, processing_time) ==
    [chunk_uuid |-> chunk_uuid, miner_ss58_address |-> miner_ss58_address,
     succeed |-> succeed, processing_time |-> processing_time]

\* miner_process = MinerProcess(..., succeed=chunk is not None, processing_time=final_time)
miner_process_of(a, chunk, final_time) ==
    MinerProcess(chunk_uuid_of(a), a, chunk # None, final_time)

\* RetrieveEvent(..., event_params=EventParams(file_uuid, miners_processes),
\*               event_signed_params=sign_data(event_params, key))
RetrieveEvent(miners_processes) ==
    LET event_params == [file_uuid |-> 1, miners_processes |-> miners_processes]
    IN [validator_ss58_address |-> SelfAddr,
        event_params |-> event_params,
        event_signed_params |-> sign_data(event_params, 100 + SelfAddr)]

\* if miners_with_chunks[0]["chunk"]: return it, else: raise HTTPException
retrieve_result(miners_with_chunks, chunks) ==
    IF Len(miners_with_chunks) = 0 THEN "IndexError"
    ELSE IF chunks[1] \notin {None, ""} THEN "chunk"
    ELSE "HTTPException: The chunk does not exist"

RtIdle == [pc |-> "idle", miner_chunks |-> {}, active_miners |-> {},
           miners_with_chunks |-> <<>>, start_time |-> 0, outcomes |-> <<>>,
           chunks |-> <<>>, miners_processes |-> <<>>, result |-> ""]

\* the endpoint ends: it returns or raises
Ends(result) == [rt EXCEPT !.pc = "done", !.result = result]

\* file_exists = database.check_if_file_exists(...); if not file_exists: raise
retrieve_endpoint_check_file ==
    /\ rt.pc = "idle"
    /\ \E file_exists \in BOOLEAN :
          rt' = IF file_exists THEN [rt EXCEPT !.pc = "miner_chunks"]
                ELSE Ends("HTTPException: File does not exist")
    /\ UNCHANGED <<connections, now, chain, nextInbound, nextOutbound, closed,
                   receivers, hs, rc, rounds, up, ri, ga, peers, ds, events>>

\* miner_chunks = database.get_miner_chunks(file_uuid); if not miner_chunks: raise
retrieve_endpoint_miner_chunks ==
    /\ rt.pc = "miner_chunks"
    /\ \E miner_chunks \in SUBSET Addrs :
          rt' = IF miner_chunks # {}
                THEN [rt EXCEPT !.pc = "active_miners",
                                !.miner_chunks = miner_chunks]
                ELSE Ends("HTTPException: Currently no miner has any chunk")
    /\ UNCHANGED <<connections, now, chain, nextInbound, nextOutbound, closed,
                   receivers, hs, rc, rounds, up, ri, ga, peers, ds, events>>

\* active_miners = await get_active_miners(...); if not active_miners: raise;
\* miners_with_chunks = get_miner_info_with_chunk(active_miners, miner_chunks)
retrieve_endpoint_active_miners ==
    /\ rt.pc = "active_miners"
    /\ \E responses \in [Addrs -> {None, "miner", "validator"}] :
        LET active_miners == active_miners_of(chain, responses)
        IN rt' = IF active_miners # {}
                 THEN [rt EXCEPT
                        !.pc = "loop",
                        !.active_miners = active_miners,
                        !.miners_with_chunks =
                            get_miner_info_with_chunk(active_miners, rt.miner_chunks),
                        !.start_time = now]
                 ELSE Ends("HTTPException: Currently there are no active miners")
    /\ UNCHANGED <<connections, now, chain, nextInbound, nextOutbound, closed,
                   receivers, hs, rc, rounds, up, ri, ga, peers, ds, events>>

\* get_active_miners raises: the chain query fails or a ping is answered
\* without "type"
retrieve_endpoint_active_miners_fails ==
    /\ rt.pc = "active_miners"
    /\ rt' = Ends("Exception")
    /\ UNCHANGED <<connections, now, chain, nextInbound, nextOutbound, closed,
                   receivers, hs, rc, rounds, up, ri, ga, peers, ds, events>>

\* one round of the loop: start_time, retrieve_request, final_time, the
\* MinerProcess of this miner is appended
retrieve_endpoint_contact ==
    /\ rt.pc = "loop"
    /\ Len(rt.outcomes) < Len(rt.miners_with_chunks)
    /\ \E outcome \in Exceptions \cup RetrieveAnswers, elapsed \in 0..MaxElapsed :
        LET a == rt.miners_with_chunks[Len(rt.outcomes) + 1]
            r == retrieve_request(execute_miner_request(outcome))
            final_time == (now + elapsed) - rt.start_time
        IN /\ now + elapsed <= MaxClock
           /\ now' = now + elapsed
           /\ rt' = IF r.raised
                    THEN [Ends("KeyError") EXCEPT
                            !.outcomes = Append(rt.outcomes, outcome)]
                    ELSE [rt EXCEPT
                            !.outcomes = Append(rt.outcomes, outcome),
                            !.chunks = Append(rt.chunks, r.chunk),
                            !.miners_processes =
                                Append(rt.miners_processes,
                                       miner_process_of(a, r.chunk, final_time)),
                            !.start_time = now + elapsed]
    /\ UNCHANGED <<connections, chain, nextInbound, nextOutbound, closed,
                   receivers, hs, rc, rounds, up, ri, ga, peers, ds, events>>

\* the loop is over: the event is built, signed and handed to the network
retrieve_endpoint_emit_event ==
    /\ rt.pc = "loop"
    /\ Len(rt.outcomes) = Len(rt.miners_with_chunks)
    /\ events' = Append(events, RetrieveEvent(rt.miners_processes))
    /\ rt' = [rt EXCEPT !.pc = "result"]
    /\ UNCHANGED <<connections, now, chain, nextInbound, nextOutbound, closed,
                   receivers, hs, rc, rounds, up, ri, ga, peers, ds>>

\* if miners_with_chunks[0]["chunk"]: return ... else: raise HTTPException
retrieve_endpoint_result ==
    /\ rt.pc = "result"
    /\ rt' = Ends(retrieve_result(rt.miners_with_chunks, rt.chunks))
    /\ UNCHANGED <<connections, now, chain, nextInbound, nextOutbound, closed,
                   receivers, hs, rc, rounds, up, ri, ga, peers, ds, events>>

retrieve_endpoint ==
    \/ retrieve_endpoint_check_file
    \/ retrieve_endpoint_miner_chunks
    \/ retrieve_endpoint_active_miners
    \/ retrieve_endpoint_active_miners_fails
    \/ retrieve_endpoint_contact
    \/ retrieve_endpoint_emit_event
    \/ retrieve_endpoint_result

(* ------------------------------ environment --------------------------- *)
\* time passes
Tick ==
    /\ now < MaxTime
    /\ now' = now + 1
    /\ UNCHANGED <<connections, chain, nextInbound, nextOutbound, closed, receivers, hs, rc, aux>>

\* time passes, far enough for entries to age beyond the inactivity timeout
LongTick ==
    /\ now < MaxClock
    /\ now' = now + 1
    /\ UNCHANGED <<connections, chain, nextInbound, nextOutbound, closed, receivers, hs, rc, aux>>

\* modules register, deregister, move or change role on the chain
ChainUpdate ==
    /\ chain' \in ChainSnapshots \ {chain}
    /\ UNCHANGED <<connections, now, nextInbound, nextOutbound, closed, receivers, hs, rc, aux>>

(* ---------------------------- specification --------------------------- *)
Init ==
    /\ connections = <<>>
    /\ now = 0
    /\ chain = {AsValidator(a, 1) : a \in Addrs}
    /\ nextInbound = 1
    /\ nextOutbound = MaxInbound + 1
    /\ closed = {}
    /\ receivers = {}
    /\ hs = [s \in InboundSockets |-> HsFree]
    /\ rc = RcStart
    /\ rounds = 0
    /\ up = UpIdle
    /\ ri = RiIdle
    /\ ga = GaNone
    /\ peers = PeersStart
    /\ ds = DsIdle
    /\ rt = RtIdle
    /\ events = <<>>

Next ==
    \/ accept
    \/ \E s \in InboundSockets : handle_connection(s)
    \/ check_connections_process
    \/ Tick
    \/ ChainUpdate

Spec == Init /\ [][Next]_vars

\* The pool under its callers: entries are inserted, removed, refreshed and
\* swept while the clock runs past the inactivity timeout.
PoolNext ==
    \/ \E identifier \in PeerAddrs : call_update_or_append(identifier)
    \/ \E identifier \in PeerAddrs : call_remove(identifier)
    \/ \E identifiers \in SUBSET PeerAddrs : call_remove_multiple(identifiers)
    \/ \E identifier \in PeerAddrs : update_ping_check(identifier)
    \/ update_ping_read
    \/ update_ping_write
    \/ remove_inactive
    \/ LongTick

PoolSpec == Init /\ [][PoolNext]_vars

\* Lookups of entries of every age.
LookupNext ==
    \/ \E identifier \in PeerAddrs : call_update_or_append(identifier)
    \/ \E identifier \in PeerAddrs : call_remove(identifier)
    \/ \E identifier \in PeerAddrs : call_get_actives(identifier)
    \/ LongTick

LookupSpec == Init /\ [][LookupNext]_vars

\* Peers that fall silent: the reconciliation loop and the reaper run while
\* nothing refreshes the entries.
SilentNext ==
    \/ check_connections_process
    \/ remove_inactive
    \/ LongTick
    \/ ChainUpdate

SilentSpec == Init /\ [][SilentNext]_vars

\* A registry that no longer changes and a network without faults: no chain
\* query, connect, send or process start fails and every peer sends its first
\* frame in time. The pool may start with an entry the connector made under
\* an earlier state of the registry.
StableInit ==
    /\ chain \in ChainSnapshots
    /\ now = 0
    /\ nextInbound = 1
    /\ closed = {}
    /\ hs = [s \in InboundSockets |-> HsFree]
    /\ rc = RcStart
    /\ rounds = 0
    /\ up = UpIdle
    /\ ri = RiIdle
    /\ ga = GaNone
    /\ peers = PeersStart
    /\ ds = DsIdle
    /\ rt = RtIdle
    /\ events = <<>>
    /\ \/ /\ connections = <<>>
          /\ nextOutbound = MaxInbound + 1
          /\ receivers = {}
       \/ /\ connections =
                Put(<<>>, NumAddrs,
                    Connection(AsValidator(NumAddrs, 1), MaxInbound + 1, 0))
          /\ nextOutbound = MaxInbound + 2
          /\ receivers = {<<MaxInbound + 1, NumAddrs>>}

\* time.sleep(10) at the end of a round that is counted
stable_round_ends ==
    /\ check_connections_round_ends
    /\ rounds' = IF rounds < MaxRounds THEN rounds + 1 ELSE rounds
    /\ UNCHANGED <<up, ri, ga, peers, api>>

StableNext ==
    \/ accept
    \/ \E s \in InboundSockets :
          \/ handle_connection_receive(s)
          \/ handle_connection_check_identifier(s)
          \/ handle_connection_check_full(s)
          \/ handle_connection_get_validators(s)
          \/ handle_connection_check_space(s)
          \/ handle_connection_add_connection(s)
          \/ handle_connection_start(s)
    \/ check_connections_get_validators
    \/ check_connections_remove
    \/ check_connections_new_validators
    \/ initialize_validators_connect
    \/ initialize_validators_add_connection
    \/ initialize_validators_start
    \/ initialize_validators_except
    \/ stable_round_ends
    \/ Tick

StableSpec == StableInit /\ [][StableNext]_vars

\* Two validators that dial each other in the same reconciliation round.
PairNextStep == \E n \in Pair : dial(n) \/ answer(n)

PairSpec == Init /\ [][PairNextStep]_vars

\* Peer discovery over every registry: the lists are computed and pinged.
DiscoveryInit ==
    /\ chain \in Registries
    /\ connections = <<>>
    /\ now = 0
    /\ nextInbound = 1
    /\ nextOutbound = MaxInbound + 1
    /\ closed = {}
    /\ receivers = {}
    /\ hs = [s \in InboundSockets |-> HsFree]
    /\ rc = RcStart
    /\ rounds = 0
    /\ up = UpIdle
    /\ ri = RiIdle
    /\ ga = GaNone
    /\ peers = PeersStart
    /\ ds = DsIdle
    /\ rt = RtIdle
    /\ events = <<>>

DiscoveryNext ==
    \/ get_active_miners_list
    \/ get_active_validators_list
    \/ discovery_get_modules_fails
    \/ discovery_ping
    \/ discovery_return

DiscoverySpec == DiscoveryInit /\ [][DiscoveryNext]_vars

\* One retrieve request against a registry of miners and validators.
RetrieveInit ==
    /\ chain \in RoleRegistries
    /\ connections = <<>>
    /\ now = 0
    /\ nextInbound = 1
    /\ nextOutbound = MaxInbound + 1
    /\ closed = {}
    /\ receivers = {}
    /\ hs = [s \in InboundSockets |-> HsFree]
    /\ rc = RcStart
    /\ rounds = 0
    /\ up = UpIdle
    /\ ri = RiIdle
    /\ ga = GaNone
    /\ peers = PeersStart
    /\ ds = DsIdle
    /\ rt = RtIdle
    /\ events = <<>>

RetrieveSpec == RetrieveInit /\ [][retrieve_endpoint]_vars

(* ------------------------------- claims ------------------------------- *)
Size(conns) == Cardinality(DOMAIN conns)
Addresses(modules) == {m.ss58_address : m \in modules}

\* a step of the handshake worker of socket s
HsStep(s) == hs[s].pc \notin {"free", "done"} /\ hs'[s] # hs[s]
\* the step in which the worker of s, or the connector, calls add_connection
InboundUpsert(s) == hs[s].pc = "add_connection" /\ hs'[s] # hs[s]
OutboundUpsert == rc.pc = "add_connection" /\ rc' # rc
\* the handshake of s ends in this step
HsEnds(s) == HsStep(s) /\ hs'[s].pc = "done"
\* s is the socket of a pool entry
InPool(conns, s) == \E i \in DOMAIN conns : conns[i].socket = s
HasReceiver(recv, s) == \E r \in recv : r[1] = s

\* C1: the pool never holds more than cache_size entries.
C1_PoolSizeBounded == Size(connections) <= cache_size

\* C2: after an IDENTIFIER frame whose signature does not verify, the worker
\* has closed the socket and none of its later steps changes the pool or
\* starts a receiver.
C2_InvalidSignatureNotAdmitted ==
    [][\A s \in InboundSockets :
        (HsStep(s) /\ hs[s].pc # "select" /\ ~hs[s].is_verified_signature)
            => /\ s \in closed
               /\ connections' = connections
               /\ receivers' = receivers]_vars

\* C3: a socket whose frame was validly signed is stored in the pool under
\* identity I only if the address derived from the signing public key is I.
C3_NoIdentitySpoofing ==
    \A s \in InboundSockets : \A i \in DOMAIN connections :
        (hs[s].pc = "start" /\ hs[s].is_verified_signature
            /\ connections[i].socket = s)
            => hs[s].ss58_address = i

\* C4: no socket stored in a pool entry has been closed.
C4_NoClosedSocketInPool ==
    \A i \in DOMAIN connections : connections[i].socket \notin closed

\* C5: when the claimed identity is not in the validator snapshot the worker
\* fetches (or the snapshot is empty), the worker ends, the socket is closed
\* and the pool and the receivers are unchanged; and a worker stores its
\* socket in the pool only for an identity of the snapshot it fetched.
C5_AdmittedOnlyIfValidator ==
    [][\A s \in InboundSockets :
        /\ (HsStep(s) /\ hs[s].pc = "get_validators"
               /\ hs[s].connection_identifier
                      \notin Addresses(get_filtered_modules(chain)))
              => /\ hs'[s].pc = "done"
                 /\ s \in closed'
                 /\ connections' = connections
                 /\ receivers' = receivers
        /\ (InboundUpsert(s) /\ connections' # connections)
              => /\ hs[s].connection_identifier \in Addresses(hs[s].validators)
                 /\ hs[s].connection_identifier \in DOMAIN connections'
                 /\ connections'[hs[s].connection_identifier].socket = s]_vars

\* C5 witness: a handshake was turned away because the claimed identity is
\* not a validator of the snapshot.
C5_Witness ==
    \E s \in InboundSockets :
        /\ hs[s].pc = "done"
        /\ hs[s].log \in {"not a valid validator", "no active validators"}
        /\ s \in closed

\* C6: add_connection of an identity that is not in the pool, when the pool
\* already holds cache_size entries, raises and leaves the pool unchanged.
C6_UpsertWhenFullFails ==
    [][/\ \A s \in InboundSockets :
            (InboundUpsert(s)
                /\ hs[s].validator_connection.ss58_address \notin DOMAIN connections
                /\ Size(connections) >= cache_size)
                => (hs'[s].log = "error" /\ connections' = connections)
       /\ (OutboundUpsert
                /\ rc.validator.ss58_address \notin DOMAIN connections
                /\ Size(connections) >= cache_size)
                => (rc'.pc = "except" /\ connections' = connections)]_vars

\* C7: add_connection of an identity already in the pool replaces the entry
\* by (new module, new socket, last_seen = now), keeps the pool size, and
\* the socket of the replaced entry is closed when the call returns.
C7_UpsertReplacesAndClosesOld ==
    [][/\ \A s \in InboundSockets :
            LET i == hs[s].validator_connection.ss58_address IN
            (InboundUpsert(s) /\ i \in DOMAIN connections)
                => /\ connections' =
                        Put(connections, i,
                            Connection(hs[s].validator_connection, s, now))
                   /\ Size(connections') = Size(connections)
                   /\ connections[i].socket \in closed'
       /\ LET i == rc.validator.ss58_address IN
            (OutboundUpsert /\ i \in DOMAIN connections)
                => /\ connections' =
                        Put(connections, i,
                            Connection(rc.validator, rc.validator_socket, now))
                   /\ Size(connections') = Size(connections)
                   /\ connections[i].socket \in closed']_vars

\* C8: a validly signed IDENTIFIER for an identity that is already in the
\* pool ends the handshake with the new socket closed, no receiver started
\* and the pool as it was.
C8_DuplicateInboundClosed ==
    [][\A s \in InboundSockets :
        (HsStep(s) /\ hs[s].pc = "check_identifier"
            /\ hs[s].is_verified_signature
            /\ hs[s].connection_identifier \in DOMAIN connections)
            => /\ hs'[s].pc = "done"
               /\ s \in closed'
               /\ receivers' = receivers
               /\ connections' = connections]_vars

\* C9 as stated: a validly signed IDENTIFIER for an identity already in the
\* pool leaves that entry with last_seen = now and the pool no larger.
C9_SecondIdentifierUpdatesEntry ==
    [][\A s \in InboundSockets :
        LET i == hs[s].connection_identifier IN
        (HsEnds(s) /\ hs[s].pc = "check_identifier"
            /\ hs[s].is_verified_signature /\ i \in DOMAIN connections)
            => /\ i \in DOMAIN connections'
               /\ connections'[i].ping = now
               /\ Size(connections') <= Size(connections)]_vars

\* C9 as amended: a validly signed IDENTIFIER for an identity that is in the
\* pool when the worker looks it up ends the handshake there; the entry
\* (module, socket, last_seen) and the pool size are left as they were.
C9_SecondIdentifierLeavesEntry ==
    [][\A s \in InboundSockets :
        (HsStep(s) /\ hs[s].pc = "check_identifier"
            /\ hs[s].is_verified_signature
            /\ hs[s].connection_identifier \in DOMAIN connections)
            => /\ hs'[s].pc = "done"
               /\ connections' = connections]_vars

\* C9 witness: a handshake with a valid signature (its socket was not closed
\* on receipt) ended on the duplicate check while the clock had moved on
\* from the entry's last_seen.
C9_Witness ==
    \E s \in InboundSockets :
        /\ hs[s].pc = "done"
        /\ hs[s].log = "already in the connection pool"
        /\ s \notin closed
        /\ \E i \in DOMAIN connections : connections[i].ping < now

\* C10: when a handshake worker ends, either its socket is stored in the
\* pool and a receiver runs on it, or its socket is closed, and not both.
C10_AdmittedOrClosed ==
    [][\A s \in InboundSockets :
        HsEnds(s) =>
            ((InPool(connections', s) /\ HasReceiver(receivers', s))
                # (s \in closed'))]_vars

\* C11: with a registry that no longer changes and without faults, once two
\* rounds of reconciliation are complete the identities in the pool are
\* exactly the validators of the registry other than the local one.
C11_ReconciliationConverges ==
    rounds >= 2 =>
        get_identifiers(connections) =
            Addresses(get_filtered_modules(chain)) \ {SelfAddr}

\* a step of the check-connections process
RcStep == rc' # rc
\* the steps of a round that walk to_remove
StaleRemoval ==
    /\ (rc.pc = "get_validators" /\ rc'.pc = "remove")
          => rc'.to_remove =
                 {i \in DOMAIN connections :
                     i \notin Addresses(get_filtered_modules(chain))}
    /\ (rc.pc = "remove" /\ rc.to_remove # {} /\ RcStep)
          => \E i \in rc.to_remove :
                /\ rc'.to_remove = rc.to_remove \ {i}
                /\ i \notin DOMAIN connections'
                /\ i \in DOMAIN connections => connections[i].socket \in closed'
    /\ (rc.pc = "remove" /\ rc'.pc # "remove") => rc.to_remove = {}

\* C12 as stated: in every round each identity that is in the pool and not
\* in the fetched validator set is removed and its socket closed, and no step
\* of the round removes an identity of the fetched validator set.
C12_TickRemovesOnlyStale ==
    [][/\ StaleRemoval
       /\ RcStep =>
            \A i \in DOMAIN connections :
                i \in Addresses(rc.validators) => i \in DOMAIN connections']_vars

\* C12 as amended: the stale identities are removed and closed as stated;
\* walking to_remove never removes an identity of the fetched validator set,
\* and the only entry of such an identity a round removes is that of the
\* validator whose connection attempt has just failed.
C12_TickRemovesStaleOrFailed ==
    [][/\ StaleRemoval
       /\ RcStep =>
            \A i \in DOMAIN connections :
                (i \in Addresses(rc.validators) /\ i \notin DOMAIN connections')
                    => (rc.pc = "except" /\ i = rc.validator.ss58_address)
       /\ (rc.pc = "remove" /\ RcStep) =>
            \A i \in DOMAIN connections \ rc.to_remove :
                i \in DOMAIN connections' /\ connections'[i] = connections[i]]_vars

\* C12 witness: a round has walked its to_remove list; the entry of an
\* identity outside the fetched validator set is gone and the socket its
\* receiver reads from is closed.
C12_Witness ==
    /\ rc.pc = "remove"
    /\ rc.to_remove = {}
    /\ \E r \in receivers :
        /\ r[1] \in closed
        /\ r[2] \notin DOMAIN connections
        /\ r[2] \notin Addresses(rc.validators)

\* C13: the local validator's own address is never an identifier of its own
\* pool, is never in the list of validators to dial and is never dialed.
C13_SelfNeverInPool ==
    /\ SelfAddr \notin get_identifiers(connections)
    /\ SelfAddr \notin Addresses(rc.new_validators)
    /\ rc.validator.ss58_address # SelfAddr

\* both validators have finished dialing and answering
PairDone ==
    \A n \in Pair : peers[n].dial = "done" /\ peers[n].answer = "done"
\* socket s is open at both ends
PairOpen(s) == \A n \in Pair : s \notin peers[n].closed

\* C14: when two validators have dialed each other at the same time, each
\* one's pool entry for the other refers to the socket the validator with the
\* smaller address dialed, that socket is open and the remote side runs a
\* receiver on it, and the socket the other validator dialed is closed.
C14_TieBreakLeavesOneConnection ==
    PairDone =>
        /\ \A n \in Pair :
            /\ Other(n) \in DOMAIN peers[n].connections
            /\ peers[n].connections[Other(n)].socket = Min(Pair)
            /\ peers[n].connections[Other(n)].socket
                   \in peers[Other(n)].receivers
        /\ PairOpen(Min(Pair))
        /\ ~PairOpen(Other(Min(Pair)))

\* C15: when the chain query of a round fails, the round leaves the pool and
\* the sockets as they were and the loop goes on to its next round.
C15_ChainFailureSkipsRound ==
    [][(rc.pc = "get_validators" /\ RcStep /\ rc'.pc # "remove")
          => /\ connections' = connections
             /\ closed' = closed
             /\ rc' = RcStart]_vars

\* entry i has not been refreshed for longer than the inactivity timeout
Silent(conns, i, t) == t - conns[i].ping > INACTIVITY_TIMEOUT_SECONDS
\* the steps of a remove_inactive call: it starts, it has read the sockets,
\* it returns
ReapStarts == ri.pc = "idle" /\ ri'.pc = "sockets"
ReapReads == ri.pc = "sockets" /\ ri'.pc = "del"
ReapReturns == ri.pc = "del" /\ ri'.pc = "idle" /\ ri'.result = "returned"

C17_PoolOperationsAtomic ==
    [][\A i \in PeerAddrs :
        (i \notin DOMAIN connections /\ i \in DOMAIN connections')
            => up' = up]_vars

\* C18: get_actives(identifier) returns the entry of identifier when
\* identifier is in the pool and now - last_seen <= INACTIVITY_TIMEOUT_SECONDS
\* (the boundary included), returns None otherwise, and leaves the pool as
\* it was.
C18_GetActivesReturnsActiveEntry ==
    [][ga' # ga =>
        LET i == ga'.identifier
            active == /\ i \in DOMAIN connections
                      /\ now - connections[i].ping <= INACTIVITY_TIMEOUT_SECONDS
        IN /\ active => ga'.connection = connections[i]
           /\ ~active => ga'.connection = NoConnection
           /\ connections' = connections]_vars

\* C18 witness: a lookup returned an entry whose age is exactly the timeout.
C18_Witness ==
    /\ ga.identifier \in DOMAIN connections
    /\ ga.connection = connections[ga.identifier]
    /\ now - ga.connection.ping = INACTIVITY_TIMEOUT_SECONDS

TouchStarts == up.pc = "idle" /\ up' # up
TouchReads == up.pc = "read" /\ up'.pc = "write"
TouchWrites == up.pc = "write" /\ up' # up

\* C20: update_ping(identifier) for an identifier that is not in the pool
\* changes nothing and creates no entry; for an identifier that is in the
\* pool it sets last_seen of that entry to the time it reads, with the module
\* and the socket of the entry as they were, and leaves every other entry
\* unchanged.
C20_UpdatePingSetsLastSeenOnly ==
    [][/\ TouchStarts =>
            /\ connections' = connections
            /\ up'.identifier \notin DOMAIN connections
                   => (up'.pc = "idle" /\ up'.result = "absent")
            /\ up'.identifier \in DOMAIN connections => up'.pc = "read"
       /\ TouchReads =>
            /\ connections' = connections
            /\ up'.connection.ping = now
            /\ up'.connection.module = connections[up.identifier].module
            /\ up'.connection.socket = connections[up.identifier].socket
       /\ TouchWrites =>
            /\ up'.result = "updated"
            /\ up.identifier \in DOMAIN connections'
            /\ connections'[up.identifier].ping = up.connection.ping
            /\ connections'[up.identifier].module = up.connection.module
            /\ connections'[up.identifier].socket = up.connection.socket
            /\ up.identifier \in DOMAIN connections =>
                 /\ connections'[up.identifier].module =
                        connections[up.identifier].module
                 /\ connections'[up.identifier].socket =
                        connections[up.identifier].socket
            /\ \A j \in DOMAIN connections \ {up.identifier} :
                 j \in DOMAIN connections' /\ connections'[j] = connections[j]
            /\ DOMAIN connections' \subseteq DOMAIN connections \cup {up.identifier}]_vars

\* C20 witness: an update_ping call has moved last_seen of one entry forward
\* to the present while another entry kept an older last_seen.
C20_Witness ==
    /\ up.result = "updated"
    /\ up.identifier \in DOMAIN connections
    /\ connections[up.identifier].ping = now
    /\ now > 0
    /\ \E j \in DOMAIN connections \ {up.identifier} : connections[j].ping < now

\* the role rule as the specification words it
MinerByRule(module) ==
    \/ (module.incentive = 0 /\ module.dividends = 0)
    \/ module.incentive > module.dividends

\* C23: a module is listed as a miner if and only if its incentive and
\* dividends are both zero or its incentive is above its dividends; every
\* other module is listed as a validator, so that the two lists split the
\* registry and no module is in both.
C23_RoleClassification ==
    /\ get_miners(chain) = {module \in chain : MinerByRule(module)}
    /\ get_filtered_modules(chain) = {module \in chain : ~MinerByRule(module)}
    /\ get_miners(chain) \cap get_filtered_modules(chain) = {}
    /\ get_miners(chain) \cup get_filtered_modules(chain) = chain
    /\ (ds.type = "miner" /\ ds.pc # "raised") =>
            ds.listed = {module \in chain : MinerByRule(module)}

\* the miners are listed from a registry that holds a module without stake,
\* a module whose incentive is above its dividends and a module whose
\* dividends are not below its incentive
C23_Witness ==
    /\ ds.type = "miner"
    /\ ds.pc = "ping"
    /\ \E module \in ds.listed : module.incentive = 0 /\ module.dividends = 0
    /\ \E module \in ds.listed : module.incentive > module.dividends
    /\ \E module \in chain \ ds.listed :
          module.dividends >= module.incentive /\ module.dividends > 0

\* the list of the role a discovery call was made for
RoleList(type, modules) ==
    IF type = "miner" THEN {module \in modules : MinerByRule(module)}
    ELSE {module \in modules : ~MinerByRule(module)}

\* C24: a discovery call that returns gives exactly the modules of its
\* role's list (miners for get_active_miners, validators for
\* get_active_validators) whose ping was answered with the matching type;
\* a module whose ping failed, timed out or named another type is not in it.
C24_DiscoveryReturnsActiveOfRole ==
    ds.pc = "returned" =>
        ds.active = {module \in RoleList(ds.type, chain) :
                        ds.replies[module.ss58_address] = ds.type}

\* a miner is contacted: one more outcome of client.call is on record
Contacts == Len(rt'.outcomes) = Len(rt.outcomes) + 1
Contacted == rt.miners_with_chunks[Len(rt'.outcomes)]
LastOutcome == rt'.outcomes[Len(rt'.outcomes)]
LastProcess == rt'.miners_processes[Len(rt'.miners_processes)]

HttpExceptions ==
    {"HTTPException: File does not exist",
     "HTTPException: Currently no miner has any chunk",
     "HTTPException: Currently there are no active miners",
     "HTTPException: The chunk does not exist"}

\* C22: retrieve_endpoint ends either by returning a retrieved chunk or by
\* raising an HTTPException; it has no other outcome, also when none of the
\* active miners holds a chunk of the file.
C22_RetrieveReturnsChunkOrHttpException ==
    rt.pc = "done" => rt.result \in {"chunk"} \cup HttpExceptions

\* the request passed the three checks of the endpoint
PassedChecks == rt.active_miners # {}

\* C30: a request that passed the three checks has emitted exactly one
\* RetrieveEvent by the time the endpoint returns or raises, and none before
\* every selected miner was contacted; the event holds one MinerProcess per
\* contacted miner, in the order of contact. A request that failed a check
\* has contacted no miner and emitted no event.
C30_OneEventPerRetrieve ==
    /\ (rt.pc = "done" /\ PassedChecks) =>
          /\ Len(events) = 1
          /\ Len(events[1].event_params.miners_processes) = Len(rt.outcomes)
          /\ \A i \in 1..Len(rt.outcomes) :
                events[1].event_params.miners_processes[i].miner_ss58_address =
                    rt.miners_with_chunks[i]
    /\ Len(events) > 0 => Len(rt.outcomes) = Len(rt.miners_with_chunks)
    /\ Len(events) <= 1
    /\ ~PassedChecks => (rt.outcomes = <<>> /\ events = <<>>)

\* steps of one outbound attempt
OutboundInserts == rc.pc = "add_connection" /\ rc'.pc = "start"
OutboundStarts == rc.pc = "start" /\ rc'.pc = "connect"
OutboundFails == rc.pc = "except" /\ rc' # rc
Started(s) == \E r \in receivers' \ receivers : r[1] = s

\* C25: the connector inserts a validator into the pool only on a socket on
\* which it has sent its own signed IDENTIFIER and on which no receiver runs
\* yet, and it starts a receiver on an outbound socket only after that insert:
\* connect, send, upsert, receiver, in this order.
C25_OutboundOrdering ==
    [][/\ OutboundInserts =>
            /\ rc.sent = <<rc.validator_socket, identifier_message>>
            /\ rc.sent[2].body.ss58_address = SelfAddr
            /\ verify_data_signature(rc.sent[2].body, rc.sent[2].signature_hex, SelfAddr)
            /\ connections'[rc.validator.ss58_address].socket = rc.validator_socket
            /\ ~HasReceiver(receivers, rc.validator_socket)
       /\ \A s \in OutboundSockets :
            /\ (~InPool(connections, s) /\ InPool(connections', s)) =>
                    (OutboundInserts /\ s = rc.validator_socket)
            /\ Started(s) =>
                    /\ OutboundStarts
                    /\ s = rc.validator_socket
                    /\ rc.sent = <<s, identifier_message>>
                    /\ receivers' = receivers \cup {<<s, rc.validator.ss58_address>>}
    ]_vars

\* an attempt went through all four steps: its socket is in the pool under
\* the validator dialed and a receiver runs on it
C25_Witness ==
    \E i \in DOMAIN connections :
        /\ connections[i].socket \in OutboundSockets
        /\ <<connections[i].socket, i>> \in receivers
        /\ rc.pc = "connect"

\* C26: when an outbound attempt fails, at whichever step, the handler leaves
\* no pool entry that holds the attempt's socket, the entry the attempt
\* inserted is gone, and the attempt's socket is closed.
C26_FailedAttemptCleansUp ==
    [][OutboundFails =>
        /\ ~InPool(connections', rc.validator_socket)
        /\ rc.validator_socket \in closed'
        /\ ~HasReceiver(receivers', rc.validator_socket)
    ]_vars

\* the first attempt of a run failed and the handler has run: the pool holds
\* no entry and the socket of the attempt is closed
C26_Witness ==
    /\ rc.pc = "connect"
    /\ connections = <<>>
    /\ receivers = {}
    /\ \E s \in OutboundSockets : s \in closed
    /\ \A s \in InboundSockets : hs[s].pc = "free"

Running == {r \in receivers : r[1] \notin closed}

\* C28: at every moment at most one receiver runs per identity on an open
\* socket, and when that identity's pool entry holds an open socket it is the
\* socket the receiver runs on: of two handshakes for one identity the losing
\* socket is closed.
C28_OneReceiverPerIdentity ==
    /\ \A r1, r2 \in Running : r1[2] = r2[2] => r1 = r2
    /\ \A r \in Running :
          (r[2] \in DOMAIN connections /\ connections[r[2]].socket \notin closed)
              => connections[r[2]].socket = r[1]

\* C29: a failed outbound attempt removes no pool entry but the one it
\* inserted: an entry of the same validator that holds another, open socket,
\* put there by the inbound server after the missing set was computed, stays.
C29_FailedAttemptKeepsInboundEntry ==
    [][OutboundFails =>
        \A i \in DOMAIN connections :
            (connections[i].socket # rc.validator_socket
                /\ connections[i].socket \notin closed) =>
                (i \in DOMAIN connections' /\ connections'[i] = connections[i])
    ]_vars

\* the sockets of the entries a step takes out of the pool
Removed ==
    {connections[i].socket : i \in DOMAIN connections \ DOMAIN connections'}

\* C31: the pool closes no socket itself: remove, remove_multiple and
\* remove_inactive hand the sockets of the entries they removed, and no
\* others, to their caller, who closes them. Every socket taken out of the pool
\* reaches exactly one caller: it has not been handed out before, and the call
\* that took it out returns it.
C31_RemovedSocketsReturnedOnce ==
    [][/\ (ri' # ri /\ ri'.pc # "idle") => closed' = closed
       /\ (closed' # closed /\ nextOutbound' = nextOutbound) =>
            closed' \ closed = IF ri' = ri THEN Removed \ closed
                               ELSE ri.sockets_to_remove \ closed
       /\ Removed \cap closed = {}
       /\ Removed # {} =>
            \/ ri' = ri /\ Removed \subseteq closed'
            \/ ri'.pc = "del" /\ Removed \subseteq ri'.sockets_to_remove
       /\ (ri.pc = "del" /\ ri'.pc = "idle") =>
            \/ ri'.result = "returned"
            \/ ri.remaining = ri.connections_to_remove
    ]_vars

====
